---- MODULE Spec2Model ----
(***************************************************************************)
(* PyAppleSerialChecker: the batch lookup loop of PyAppleSerialChecker.py. *)
(*                                                                         *)
(* The state is the script's module-level variables.  One action is one    *)
(* request to the outside world (token GET, captcha GET, coverage POST)    *)
(* together with all the code that runs until the next request.  The       *)
(* answers of the service and of the OCR reader are inputs, drawn with \E. *)
(* Response bodies are strings; `marker in response.content` is substring  *)
(* search on them and the regular expressions are matched character by     *)
(* character.                                                              *)
(***************************************************************************)
EXTENDS Integers, Sequences, FiniteSets, TLC

VARIABLES
    serial_numbers,         \* list returned by load_serial_numbers
    idx,                    \* position of the for loop: serial_number = serial_numbers[idx]
    pc,                     \* where the script is
    auth_token,
    CAPTCHA_INVALID_COUNT,
    attempt,                \* number of iterations of `for attempt in range(3)` already run
    CAPTCHA_FETCHED,
    CAPTCHA_ANSWER,
    RESULT_ENTRY,
    response,               \* last response of fetch_captcha or requests.post
    sheet,                  \* rows of Sheet1 of the output workbook
    backoff,                \* history: the exponential_backoff call of the last step
    token_fetches,          \* history: fetch_captcha calls made with the current token
    pass_fetches,           \* history: fetch_captcha calls made in the current for loop
    token_retried,          \* history: a POST with the current token was answered
                            \* RateLimited or CaptchaInvalid below the cap
    answer_token            \* history: the token of the fetch_captcha call of the
                            \* current for loop that CAPTCHA_ANSWER was read from

vars == <<serial_numbers, idx, pc, auth_token, CAPTCHA_INVALID_COUNT, attempt,
          CAPTCHA_FETCHED, CAPTCHA_ANSWER, RESULT_ENTRY, response, sheet,
          backoff, token_fetches, pass_fetches, token_retried, answer_token>>

-----------------------------------------------------------------------------
(* Bounds of the model *)

MaxLen == 2                 \* longest input list
MaxCount == 4               \* the history counters saturate here
MaxRetryAttempt == 10       \* largest argument given to exponential_backoff

(* Program constants *)

MaxCaptchaAttempts == 3     \* range(3)
MaxInvalidCaptcha == 6      \* CAPTCHA_INVALID_COUNT >= 6
BackoffCap == 60            \* min(60, 2**retry_attempt)
RetryAttempt == 1           \* exponential_backoff(1)

None == "None"

Min(a, b) == IF a <= b THEN a ELSE b

Saturate(n) == Min(n, MaxCount)

-----------------------------------------------------------------------------
(* Strings *)

Char(s, i) == SubSeq(s, i, i)

\* marker in content
Contains(marker, content) ==
    \E i \in 1..(Len(content) - Len(marker) + 1) :
        SubSeq(content, i, i + Len(marker) - 1) = marker

\* bytes.decode("utf-8", errors="ignore"): the bodies are ASCII text, except
\* that "#" stands for a byte that is not valid UTF-8, which decoding drops.
InvalidByte == "#"

RECURSIVE decode(_)
decode(content) ==
    IF Len(content) = 0 THEN ""
    ELSE IF Len(content) = 1 THEN (IF content = InvalidByte THEN "" ELSE content)
    ELSE LET half == Len(content) \div 2
         IN  decode(SubSeq(content, 1, half))
                 \o decode(SubSeq(content, half + 1, Len(content)))

Digits == {"0", "1", "2", "3", "4", "5", "6", "7", "8", "9"}

Letters ==
    {"a", "b", "c", "d", "e", "f", "g", "h", "i", "j", "k", "l", "m",
     "n", "o", "p", "q", "r", "s", "t", "u", "v", "w", "x", "y", "z",
     "A", "B", "C", "D", "E", "F", "G", "H", "I", "J", "K", "L", "M",
     "N", "O", "P", "Q", "R", "S", "T", "U", "V", "W", "X", "Y", "Z"}

IsSpace(c) == c \in {" ", "\t", "\n", "\r"}      \* \s
IsDigit(c) == c \in Digits                        \* \d
IsWord(c) == c \in Letters \cup Digits \cup {"_"} \* \w

SetMin(S) == CHOOSE x \in S : \A y \in S : x <= y

\* A match object is [found, group0]; re.search returns None as NoMatch.
NoMatch == [found |-> FALSE, group0 |-> ""]
Match(s, i, j) == [found |-> TRUE, group0 |-> SubSeq(s, i, j)]

\* First index >= p of s holding character c, or Len(s) + 1.
IndexFrom(s, c, p) ==
    SetMin({j \in p..Len(s) : Char(s, j) = c} \cup {Len(s) + 1})

\* re.search(r"MacBook\s+[^\)]*\s*\([^\)]*\)", s): from "MacBook" and a
\* whitespace to the first ")" after them, with a "(" in between.
ProductNameEnd(s, i) ==
    LET p == i + 7
        r == IndexFrom(s, ")", p + 1)
    IN  IF /\ p <= Len(s)
           /\ SubSeq(s, i, p - 1) = "MacBook"
           /\ IsSpace(Char(s, p))
           /\ r <= Len(s)
           /\ \E m \in (p + 1)..(r - 1) : Char(s, m) = "("
        THEN r ELSE 0

search_PRODUCT_NAME_PATTERN(s) ==
    LET starts == {i \in 1..Len(s) : ProductNameEnd(s, i) > 0}
    IN  IF starts = {} THEN NoMatch
        ELSE Match(s, SetMin(starts), ProductNameEnd(s, SetMin(starts)))

\* re.search(r"(\w+\s\d{4})", s): a run of word characters, one whitespace,
\* four digits.  \w+ is greedy and only the whole run can be followed by \s.
PurchaseDateEnd(s, i) ==
    LET ks == {k \in 1..(Len(s) - i - 4) :
                  /\ \A j \in i..(i + k - 1) : IsWord(Char(s, j))
                  /\ IsSpace(Char(s, i + k))
                  /\ \A j \in (i + k + 1)..(i + k + 4) : IsDigit(Char(s, j))}
    IN  IF ks = {} THEN 0 ELSE i + SetMin(ks) + 4

search_PURCHASE_DATE_PATTERN(s) ==
    LET starts == {i \in 1..Len(s) : PurchaseDateEnd(s, i) > 0}
    IN  IF starts = {} THEN NoMatch
        ELSE Match(s, SetMin(starts), PurchaseDateEnd(s, SetMin(starts)))

\* re.search(r'Expires on\s*:\s*([^"]+)', s): the label, whitespace, a colon,
\* then everything up to the next double quote; at least one character, which
\* may be whitespace the second \s* gives back.
RECURSIVE SkipSpace(_, _)
SkipSpace(s, p) ==
    IF p <= Len(s) /\ IsSpace(Char(s, p)) THEN SkipSpace(s, p + 1) ELSE p

CoverageExpiryEnd(s, i) ==
    LET c == SkipSpace(s, i + 10)
        q == IndexFrom(s, "\"", c + 1)
    IN  IF /\ i + 9 <= Len(s)
           /\ SubSeq(s, i, i + 9) = "Expires on"
           /\ c <= Len(s)
           /\ Char(s, c) = ":"
           /\ q > c + 1
        THEN q - 1 ELSE 0

search_COVERAGE_EXPIRY_PATTERN(s) ==
    LET starts == {i \in 1..Len(s) : CoverageExpiryEnd(s, i) > 0}
    IN  IF starts = {} THEN NoMatch
        ELSE Match(s, SetMin(starts), CoverageExpiryEnd(s, SetMin(starts)))

\* str.strip()
RECURSIVE strip(_)
strip(s) ==
    IF Len(s) = 0 THEN s
    ELSE IF IsSpace(Char(s, 1)) THEN strip(SubSeq(s, 2, Len(s)))
    ELSE IF IsSpace(Char(s, Len(s))) THEN strip(SubSeq(s, 1, Len(s) - 1))
    ELSE s

get_match_or_default(match, default) ==
    IF match.found THEN strip(match.group0) ELSE default

-----------------------------------------------------------------------------
(* Head *)

Head_serial_number == "Serial Number"
Head_product_name == "Product Name"
Head_purchase_date == "Purchase Date"
Head_coverage_expiry == "Coverage Expiry"
Head_status == "Status"
Status_not_found == "NOT_FOUND"
Status_valid == "VALID"

\* A row of the result table, keyed by column.
Row(serial, product, purchase, expiry, status) ==
    [serial_number |-> serial, product_name |-> product, purchase_date |-> purchase,
     coverage_expiry |-> expiry, status |-> status]

\* RESULT_ENTRY = None: the row of the serial is not made yet.
NoEntry == Row(None, None, None, None, None)

headers ==
    Row(Head_serial_number, Head_product_name, Head_purchase_date,
        Head_coverage_expiry, Head_status)

-----------------------------------------------------------------------------
(* Marker substrings of the responses *)

CaptchaRateLimitMarker == "but we are currently unable to process"
RateLimitMarker == "process your request."
CaptchaMismatchMarker == "The code you entered does not match"
InvalidSerialMarker == "Please enter a valid serial number."
PurchaseDateMarker == "Sign in to update purchase date"
BenefitsMarker == "Your coverage includes the following benefits"
ExpiredMarker == "Coverage Expired"
CannotProcessMarker == "We cannot process your request at this time."
CoverageDetailMarker == "Apple coverage for your product"

\* Mutant: the coverage-detail test is made first.
Classify_DetailFirst(content) ==
    IF Contains(CoverageDetailMarker, content) THEN "CoverageFound"
    ELSE IF Contains(RateLimitMarker, content) THEN "RateLimited"
    ELSE IF Contains(CaptchaMismatchMarker, content) THEN "CaptchaInvalid"
    ELSE IF Contains(InvalidSerialMarker, content) THEN "IdentifierInvalid"
    ELSE IF Contains(PurchaseDateMarker, content) THEN "PurchaseDateUnverifiable"
    ELSE IF Contains(BenefitsMarker, content) \/ Contains(ExpiredMarker, content)
         THEN "FullyValid"
    ELSE IF Contains(CannotProcessMarker, content) THEN "RequestRejected"
    ELSE "Unknown"

\* Mutant: the cannot-process test is missing.
Classify_NoCannotProcess(content) ==
    IF Contains(RateLimitMarker, content) THEN "RateLimited"
    ELSE IF Contains(CaptchaMismatchMarker, content) THEN "CaptchaInvalid"
    ELSE IF Contains(InvalidSerialMarker, content) THEN "IdentifierInvalid"
    ELSE IF Contains(PurchaseDateMarker, content) THEN "PurchaseDateUnverifiable"
    ELSE IF Contains(BenefitsMarker, content) \/ Contains(ExpiredMarker, content)
         THEN "FullyValid"
    ELSE IF Contains(CoverageDetailMarker, content) THEN "CoverageFound"
    ELSE "Unknown"

\* The if chain on response.content after requests.post: the first test that
\* succeeds decides.
\* Mutant: the benefits branch does not test "Coverage Expired".
Classify_BenefitsOnly(content) ==
    IF Contains(RateLimitMarker, content) THEN "RateLimited"
    ELSE IF Contains(CaptchaMismatchMarker, content) THEN "CaptchaInvalid"
    ELSE IF Contains(InvalidSerialMarker, content) THEN "IdentifierInvalid"
    ELSE IF Contains(PurchaseDateMarker, content) THEN "PurchaseDateUnverifiable"
    ELSE IF Contains(BenefitsMarker, content) THEN "FullyValid"
    ELSE IF Contains(CannotProcessMarker, content) THEN "RequestRejected"
    ELSE IF Contains(CoverageDetailMarker, content) THEN "CoverageFound"
    ELSE "Unknown"

\* Mutant: a body without any marker is taken for a rate limit.
Classify_UnknownRetries(content) ==
    IF Contains(RateLimitMarker, content) THEN "RateLimited"
    ELSE IF Contains(CaptchaMismatchMarker, content) THEN "CaptchaInvalid"
    ELSE IF Contains(InvalidSerialMarker, content) THEN "IdentifierInvalid"
    ELSE IF Contains(PurchaseDateMarker, content) THEN "PurchaseDateUnverifiable"
    ELSE IF Contains(BenefitsMarker, content) \/ Contains(ExpiredMarker, content)
         THEN "FullyValid"
    ELSE IF Contains(CannotProcessMarker, content) THEN "RequestRejected"
    ELSE IF Contains(CoverageDetailMarker, content) THEN "CoverageFound"
    ELSE "RateLimited"

Classify(content) ==
    IF Contains(RateLimitMarker, content) THEN "RateLimited"
    ELSE IF Contains(CaptchaMismatchMarker, content) THEN "CaptchaInvalid"
    ELSE IF Contains(InvalidSerialMarker, content) THEN "IdentifierInvalid"
    ELSE IF Contains(PurchaseDateMarker, content) THEN "PurchaseDateUnverifiable"
    ELSE IF Contains(BenefitsMarker, content) \/ Contains(ExpiredMarker, content)
         THEN "FullyValid"
    ELSE IF Contains(CannotProcessMarker, content) THEN "RequestRejected"
    ELSE IF Contains(CoverageDetailMarker, content) THEN "CoverageFound"
    ELSE "Unknown"

\* Mutant: the invalid-serial branch records the status of the final else.
ResultEntry_InvalidAsUnknown(outcome, serial_number, content) ==
    [serial_number |-> serial_number, product_name |-> "N/A",
     purchase_date |-> "N/A", coverage_expiry |-> "N/A",
     status |-> IF outcome = "PurchaseDateUnverifiable"
                THEN "Cannot verify purchase date"
                ELSE "Unknown"]

\* RESULT_ENTRY of the branch of a terminal outcome.
ResultEntry(outcome, serial_number, content) ==
    CASE outcome = "IdentifierInvalid" ->
            Row(serial_number, "N/A", "N/A", "N/A", "Invalid")
      [] outcome = "PurchaseDateUnverifiable" ->
            Row(serial_number, "N/A", "N/A", "N/A", "Cannot verify purchase date")
      [] outcome = "FullyValid" ->
            Row(serial_number, "N/A", "N/A", "N/A", "Fully valid")
      [] outcome = "RequestRejected" ->
            Row(serial_number, "N/A", "N/A", "N/A", "Cannot process request")
      [] outcome = "CoverageFound" ->
            LET decoded_data == decode(content)
            IN  Row(serial_number,
                    get_match_or_default(search_PRODUCT_NAME_PATTERN(decoded_data),
                                         Status_not_found),
                    get_match_or_default(search_PURCHASE_DATE_PATTERN(decoded_data),
                                         Status_not_found),
                    get_match_or_default(search_COVERAGE_EXPIRY_PATTERN(decoded_data),
                                         Status_not_found),
                    Status_valid)
      [] OTHER ->
            Row(serial_number, "N/A", "N/A", "N/A", "Unknown")

-----------------------------------------------------------------------------
(* exponential_backoff *)

RECURSIVE Pow2(_)
Pow2(n) == IF n = 0 THEN 1 ELSE 2 * Pow2(n - 1)

\* Mutant: the first retry waits 2**0.
wait_time_OffByOne(retry_attempt) == Min(BackoffCap, Pow2(retry_attempt - 1))

\* Mutant: no cap.
wait_time_NoCap(retry_attempt) == Pow2(retry_attempt)

wait_time(retry_attempt) == Min(BackoffCap, Pow2(retry_attempt))

\* random.uniform(0.5, 1.5), in tenths: the two ends of the interval
Jitter == {5, 15}

\* random.uniform(0.5, 1.5), in tenths: the whole interval
JitterTenths == 5..15

\* The call made in a step: its argument and the time slept, in tenths of a
\* second; NoBackoff when the step does not sleep.
NoBackoff == [retry_attempt |-> 0, wait_time |-> 0, random_wait |-> 0]

exponential_backoff(retry_attempt, jitter) ==
    [retry_attempt |-> retry_attempt,
     wait_time |-> wait_time(retry_attempt),
     random_wait |-> jitter * wait_time(retry_attempt)]

-----------------------------------------------------------------------------
(* The output workbook *)

\* Mutant: the last row of the sheet is taken for free.
max_row_OffByOne(rows) == Len(rows) - 1

max_row(rows) == Len(rows)

\* DataFrame.to_excel(writer, header=False, startrow=n) in overlay mode writes
\* the row into sheet row n + 1, extending the sheet when that is past its end.
to_excel(rows, row, startrow) ==
    IF startrow >= Len(rows) THEN Append(rows, row)
    ELSE [rows EXCEPT ![startrow + 1] = row]

\* Mutant: every result is written into the row below the header.
AppendResult_FixedRow(rows, row) == to_excel(rows, row, 1)

\* Append result to Excel file
AppendResult(rows, row) == to_excel(rows, row, max_row(rows))

\* The rows written below the header.
Records == SubSeq(sheet, 2, Len(sheet))

-----------------------------------------------------------------------------
(* What the outside world can answer *)

Serials == {"C02XK0AAHV29", "XX1234567890"}

\* The lists load_serial_numbers can return that let the loop start.  The
\* script never looks into a serial number, so one list of each length stands
\* for all of them; from the third place on it repeats earlier serials.
SerialAt(i) == IF i % 2 = 1 THEN "C02XK0AAHV29" ELSE "XX1234567890"

Inputs == {[i \in 1..n |-> SerialAt(i)] : n \in 1..MaxLen}

\* Values of the X-APPLE-AUTH-TOKEN header; None when the header is absent.
Tokens == {"tokenA", "tokenB"}

\* A response is its raw body and, for a JSON body, the keys and values
\* json.loads gives.
Response(content, json) == [content |-> content, json |-> json]

NoResponse == Response("", {})

HasKey(json, key) == \E kv \in json : kv[1] = key

BusyPage == "We're sorry, but we are currently unable to process your request."

CaptchaResponses ==
    {Response(BusyPage, {}),
     Response("{\"binaryValue\": \"iVBORw0KGgo=\"}", {<<"binaryValue", "iVBORw0KGgo=">>}),
     Response("{\"message\": \"unavailable\"}", {<<"message", "unavailable">>})}

\* reader.readtext: a list of (box, text, confidence), possibly empty.
OcrResults == {<< >>, <<<<"box", "7K2M", 93>>>>}

DetailPage ==
    "Apple coverage for your product MacBook Pro (13-inch, 2020) Purchased June 2021 Expires on: \"2026-01-01\""

SparsePage == "Apple coverage for your product#"

Bodies ==
    {BusyPage,
     "The code you entered does not match the image.",
     "Please enter a valid serial number.",
     "Sign in to update purchase date",
     "Your coverage includes the following benefits",
     "Coverage Expired",
     "We cannot process your request at this time.",
     DetailPage,
     SparsePage,
     "Bad Gateway",
     BusyPage \o " " \o DetailPage,
     BusyPage \o " We cannot process your request at this time.",
     "Coverage Expired " \o DetailPage,
     "The code you entered does not match the image. Please enter a valid serial number."}

\* The tests on each body, evaluated once per body.
OutcomeOf == [body \in Bodies |-> Classify(body)]

EntryOf ==
    [body \in Bodies |->
        [serial \in Serials |-> ResultEntry(OutcomeOf[body], serial, body)]]

CaptchaLimited ==
    [r \in CaptchaResponses |-> Contains(CaptchaRateLimitMarker, r.content)]

-----------------------------------------------------------------------------
(* The script *)

Init ==
    /\ serial_numbers \in Inputs
    /\ idx = 1
    /\ pc = "acquire"
    /\ auth_token = None
    /\ CAPTCHA_INVALID_COUNT = 0
    /\ attempt = 0
    /\ CAPTCHA_FETCHED = FALSE
    /\ CAPTCHA_ANSWER = None
    /\ RESULT_ENTRY = NoEntry
    /\ response = NoResponse
    /\ sheet = <<headers>>
    /\ backoff = NoBackoff
    /\ token_fetches = 0
    /\ pass_fetches = 0
    /\ token_retried = FALSE
    /\ answer_token = None

serial_number == serial_numbers[idx]

\* Mutant: the while loop does not reset CAPTCHA_FETCHED and CAPTCHA_ANSWER.
BeginPass_KeepAnswer ==
    /\ UNCHANGED <<CAPTCHA_FETCHED, CAPTCHA_ANSWER>>
    /\ RESULT_ENTRY' = NoEntry
    /\ attempt' = 0
    /\ pass_fetches' = 0
    /\ answer_token' = None
    /\ pc' = "fetch"

\* The head of `while True` and of `for attempt in range(3)`.
BeginPass ==
    /\ CAPTCHA_FETCHED' = FALSE
    /\ CAPTCHA_ANSWER' = None
    /\ RESULT_ENTRY' = NoEntry
    /\ attempt' = 0
    /\ pass_fetches' = 0
    /\ answer_token' = None
    /\ pc' = "fetch"

\* sys.exit(0)
Exit ==
    /\ pc' = "aborted"
    /\ UNCHANGED <<CAPTCHA_INVALID_COUNT, attempt, CAPTCHA_FETCHED, CAPTCHA_ANSWER, answer_token,
                   RESULT_ENTRY, token_fetches, pass_fetches, token_retried>>

\* Top of the for loop over serial_numbers: get_auth_token, then the counter.
AcquireToken ==
    /\ pc = "acquire"
    /\ \E header \in Tokens \cup {None} :
        /\ auth_token' = header
        /\ IF header = None
           THEN Exit
           ELSE /\ CAPTCHA_INVALID_COUNT' = 0
                /\ token_fetches' = 0
                /\ token_retried' = FALSE
                /\ BeginPass
    /\ backoff' = NoBackoff
    /\ UNCHANGED <<serial_numbers, idx, response, sheet>>

\* Mutant: the wait after a rate-limited fetch grows with the loop variable.
FetchBackoff_ByAttempt(jitter) == exponential_backoff(attempt + 1, jitter)

\* exponential_backoff(1) after a rate-limited captcha fetch.
FetchBackoff(jitter) == exponential_backoff(RetryAttempt, jitter)

\* exponential_backoff(1) after a rate-limited lookup.
LookupBackoff(jitter) == exponential_backoff(RetryAttempt, jitter)

\* Mutant: a rate-limited fetch does not use up an iteration.
FetchAttempt_FreeRetry(r, result, jitter) ==
    LET limited == CaptchaLimited[r]
        solved == ~limited /\ HasKey(r.json, "binaryValue") /\ result # << >>
    IN  /\ response' = r
        /\ token_fetches' = Saturate(token_fetches + 1)
        /\ pass_fetches' = Saturate(pass_fetches + 1)
        /\ attempt' = IF limited THEN attempt ELSE attempt + 1
        /\ backoff' = IF limited THEN FetchBackoff(jitter)
                      ELSE NoBackoff
        /\ CAPTCHA_FETCHED' = (solved \/ CAPTCHA_FETCHED)
        /\ CAPTCHA_ANSWER' = IF solved THEN result[1][2] ELSE CAPTCHA_ANSWER
        /\ answer_token' = IF solved THEN auth_token ELSE answer_token
        /\ pc' = IF solved THEN "post"
                 ELSE IF attempt' < MaxCaptchaAttempts THEN "fetch"
                 ELSE IF CAPTCHA_FETCHED' THEN "post"
                 ELSE "refresh_exhausted"
        /\ UNCHANGED <<serial_numbers, idx, auth_token, CAPTCHA_INVALID_COUNT,
                       RESULT_ENTRY, sheet, token_retried>>

\* One iteration of `for attempt in range(3)`.
FetchAttempt(r, result, jitter) ==
    LET limited == CaptchaLimited[r]
        solved == ~limited /\ HasKey(r.json, "binaryValue") /\ result # << >>
    IN  /\ response' = r
        /\ token_fetches' = Saturate(token_fetches + 1)
        /\ pass_fetches' = Saturate(pass_fetches + 1)
        /\ attempt' = attempt + 1
        /\ backoff' = IF limited THEN FetchBackoff(jitter)
                      ELSE NoBackoff
        /\ CAPTCHA_FETCHED' = (solved \/ CAPTCHA_FETCHED)
        /\ CAPTCHA_ANSWER' = IF solved THEN result[1][2] ELSE CAPTCHA_ANSWER
        /\ answer_token' = IF solved THEN auth_token ELSE answer_token
        /\ pc' = IF solved THEN "post"
                 ELSE IF attempt' < MaxCaptchaAttempts THEN "fetch"
                 ELSE IF CAPTCHA_FETCHED' THEN "post"
                 ELSE "refresh_exhausted"
        /\ UNCHANGED <<serial_numbers, idx, auth_token, CAPTCHA_INVALID_COUNT,
                       RESULT_ENTRY, sheet, token_retried>>

FetchCaptcha ==
    /\ pc = "fetch"
    /\ \E r \in CaptchaResponses, result \in OcrResults, jitter \in Jitter :
        FetchAttempt(r, result, jitter)

\* Mutant: `continue` without a new token.
RefreshAfterExhausted_SameToken ==
    /\ pc = "refresh_exhausted"
    /\ BeginPass
    /\ backoff' = NoBackoff
    /\ UNCHANGED <<serial_numbers, idx, response, sheet, auth_token,
                   CAPTCHA_INVALID_COUNT, token_fetches, token_retried>>

\* Mutant: the test `if auth_token is None` is missing.
RefreshAfterExhausted_NoExit ==
    /\ pc = "refresh_exhausted"
    /\ \E header \in Tokens \cup {None} :
        /\ auth_token' = header
        /\ token_fetches' = 0
        /\ token_retried' = FALSE
        /\ BeginPass
        /\ UNCHANGED CAPTCHA_INVALID_COUNT
    /\ backoff' = NoBackoff
    /\ UNCHANGED <<serial_numbers, idx, response, sheet>>

\* `if not CAPTCHA_FETCHED`: a new token, then `continue`.
RefreshAfterExhausted ==
    /\ pc = "refresh_exhausted"
    /\ \E header \in Tokens \cup {None} :
        /\ auth_token' = header
        /\ IF header = None
           THEN Exit
           ELSE /\ token_fetches' = 0
                /\ token_retried' = FALSE
                /\ BeginPass
                /\ UNCHANGED CAPTCHA_INVALID_COUNT
    /\ backoff' = NoBackoff
    /\ UNCHANGED <<serial_numbers, idx, response, sheet>>

\* Mutant: the cap is tested with > instead of >=.
CaptchaInvalid_OffByOne ==
    /\ CAPTCHA_INVALID_COUNT' = CAPTCHA_INVALID_COUNT + 1
    /\ IF CAPTCHA_INVALID_COUNT' > MaxInvalidCaptcha
       THEN /\ pc' = "refresh_cap"
            /\ UNCHANGED <<attempt, CAPTCHA_FETCHED, CAPTCHA_ANSWER, answer_token, RESULT_ENTRY,
                           pass_fetches, token_retried>>
       ELSE /\ token_retried' = TRUE
            /\ BeginPass

\* Mutant: every captcha mismatch asks for a new token.
CaptchaInvalid_AlwaysRefresh ==
    /\ CAPTCHA_INVALID_COUNT' = Min(CAPTCHA_INVALID_COUNT + 1, MaxInvalidCaptcha)
    /\ pc' = "refresh_cap"
    /\ UNCHANGED <<attempt, CAPTCHA_FETCHED, CAPTCHA_ANSWER, answer_token, RESULT_ENTRY,
                   pass_fetches, token_retried>>

\* Mutant: the script exits at the cap.
CaptchaInvalid_GiveUp ==
    /\ CAPTCHA_INVALID_COUNT' = CAPTCHA_INVALID_COUNT + 1
    /\ IF CAPTCHA_INVALID_COUNT' >= MaxInvalidCaptcha
       THEN /\ pc' = "aborted"
            /\ UNCHANGED <<attempt, CAPTCHA_FETCHED, CAPTCHA_ANSWER, answer_token, RESULT_ENTRY,
                           pass_fetches, token_retried>>
       ELSE /\ token_retried' = TRUE
            /\ BeginPass

\* The captcha-mismatch branch up to its get_auth_token or its `continue`.
CaptchaInvalid ==
    /\ CAPTCHA_INVALID_COUNT' = CAPTCHA_INVALID_COUNT + 1
    /\ IF CAPTCHA_INVALID_COUNT' >= MaxInvalidCaptcha
       THEN /\ pc' = "refresh_cap"
            /\ UNCHANGED <<attempt, CAPTCHA_FETCHED, CAPTCHA_ANSWER, answer_token, RESULT_ENTRY,
                           pass_fetches, token_retried>>
       ELSE /\ token_retried' = TRUE
            /\ BeginPass

\* Mutant: a terminal branch ends in `continue` instead of `break`.
Terminal_Continue(outcome, content) ==
    /\ BeginPass
    /\ UNCHANGED <<CAPTCHA_INVALID_COUNT, idx, sheet, token_retried>>

\* A terminal branch, `break`, the append to the workbook and the next serial.
Terminal(outcome, content) ==
    /\ RESULT_ENTRY' = EntryOf[content][serial_number]
    /\ sheet' = AppendResult(sheet, RESULT_ENTRY')
    /\ idx' = idx + 1
    /\ pc' = IF idx' > Len(serial_numbers) THEN "done" ELSE "acquire"
    /\ UNCHANGED <<CAPTCHA_INVALID_COUNT, attempt, CAPTCHA_FETCHED, CAPTCHA_ANSWER, answer_token,
                   pass_fetches, token_retried>>

\* requests.post and the if chain on its response.
Submit(body, jitter) ==
    LET outcome == OutcomeOf[body]
    IN  /\ response' = Response(body, {})
        /\ CASE outcome = "RateLimited" ->
                   /\ backoff' = LookupBackoff(jitter)
                   /\ token_retried' = TRUE
                   /\ BeginPass
                   /\ UNCHANGED <<CAPTCHA_INVALID_COUNT, idx, sheet>>
             [] outcome = "CaptchaInvalid" ->
                   /\ backoff' = NoBackoff
                   /\ CaptchaInvalid
                   /\ UNCHANGED <<idx, sheet>>
             [] OTHER ->
                   /\ backoff' = NoBackoff
                   /\ Terminal(outcome, body)
        /\ UNCHANGED <<serial_numbers, auth_token, token_fetches>>

SubmitQuery ==
    /\ pc = "post"
    /\ \E body \in Bodies, jitter \in Jitter : Submit(body, jitter)

\* CAPTCHA_INVALID_COUNT >= 6: a new token, the counter reset, `continue`.
RefreshAtCap ==
    /\ pc = "refresh_cap"
    /\ \E header \in Tokens \cup {None} :
        /\ auth_token' = header
        /\ IF header = None
           THEN Exit
           ELSE /\ CAPTCHA_INVALID_COUNT' = 0
                /\ token_fetches' = 0
                /\ token_retried' = FALSE
                /\ BeginPass
    /\ backoff' = NoBackoff
    /\ UNCHANGED <<serial_numbers, idx, response, sheet>>

Next ==
    \/ AcquireToken
    \/ FetchCaptcha
    \/ RefreshAfterExhausted
    \/ SubmitQuery
    \/ RefreshAtCap

Spec == Init /\ [][Next]_vars

\* The script is sequential and never waits on itself: a step that can be
\* taken is taken.
FairSpec == Spec /\ WF_vars(Next)

\* Steps in which the service gives what the retry loop is waiting for.
CaptchaSolved ==
    /\ pc = "fetch"
    /\ \E r \in CaptchaResponses, result \in OcrResults, jitter \in Jitter :
        /\ ~CaptchaLimited[r] /\ HasKey(r.json, "binaryValue") /\ result # << >>
        /\ FetchAttempt(r, result, jitter)

TerminalAnswer ==
    /\ pc = "post"
    /\ \E body \in Bodies, jitter \in Jitter :
        /\ OutcomeOf[body] \notin {"RateLimited", "CaptchaInvalid"}
        /\ Submit(body, jitter)

-----------------------------------------------------------------------------
(* exponential_backoff on its own: any argument, any jitter *)

Sleep ==
    /\ \E retry_attempt \in 1..MaxRetryAttempt, jitter \in JitterTenths :
          backoff' = exponential_backoff(retry_attempt, jitter)
    /\ UNCHANGED <<serial_numbers, idx, pc, auth_token, CAPTCHA_INVALID_COUNT,
                   attempt, CAPTCHA_FETCHED, CAPTCHA_ANSWER, answer_token, RESULT_ENTRY,
                   response, sheet, token_fetches, pass_fetches, token_retried>>

BackoffSpec == Init /\ [][Sleep]_vars

-----------------------------------------------------------------------------
(* Properties *)

Markers ==
    {RateLimitMarker, CaptchaMismatchMarker, InvalidSerialMarker, PurchaseDateMarker,
     BenefitsMarker, ExpiredMarker, CannotProcessMarker, CoverageDetailMarker}

Has == [body \in Bodies |-> {m \in Markers : Contains(m, body)}]

\* The markers in the body of a lookup response.
MarkersIn(content) == IF content \in Bodies THEN Has[content] ELSE {}

\* Where the script calls get_auth_token.
AcquirePoints == {"acquire", "refresh_exhausted", "refresh_cap"}

InLoop == {"acquire", "fetch", "post", "refresh_exhausted", "refresh_cap"}

NotAvailable(serial, status) == Row(serial, "N/A", "N/A", "N/A", status)

\* C1: when the batch has processed its whole input, the rows appended are one
\* per input identifier, the i-th row carrying the i-th identifier.
C1_OneRecordPerIdentifierInOrder ==
    pc = "done" =>
        /\ Len(Records) = Len(serial_numbers)
        /\ \A i \in 1..Len(serial_numbers) :
              Records[i].serial_number = serial_numbers[i]

C1_Witness ==
    /\ pc = "done"
    /\ Len(serial_numbers) >= 2
    /\ serial_numbers[1] # serial_numbers[2]
    /\ Len(Records) = Len(serial_numbers)

\* C2: the invalid-captcha counter never exceeds 6; the mismatch that raises
\* it to 6 leads to a token refresh that resets it to 0 before the next captcha
\* fetch; a mismatch that leaves it below 6 goes back to fetching a captcha
\* with the same token.
C2_InvalidCaptchaCap ==
    [][/\ CAPTCHA_INVALID_COUNT' <= MaxInvalidCaptcha
       /\ CAPTCHA_INVALID_COUNT' = MaxInvalidCaptcha
             => pc' \in {"refresh_cap", "aborted"}
       /\ (pc = "refresh_cap" /\ pc' # "aborted")
             => (CAPTCHA_INVALID_COUNT' = 0 /\ pc' = "fetch" /\ token_fetches' = 0)
       /\ (/\ pc = "post"
           /\ CAPTCHA_INVALID_COUNT' = CAPTCHA_INVALID_COUNT + 1
           /\ CAPTCHA_INVALID_COUNT' < MaxInvalidCaptcha)
             => (/\ pc' = "fetch"
                 /\ auth_token' = auth_token
                 /\ token_fetches' = token_fetches)]_vars

C2_Witness == pc = "refresh_cap" /\ CAPTCHA_INVALID_COUNT = MaxInvalidCaptcha

\* C3: right after every successful token acquisition the invalid-captcha
\* counter and the captcha-fetch-attempt counter are both 0.
C3_CountersZeroAfterAcquisition ==
    [][(pc \in AcquirePoints /\ auth_token' # None)
          => (CAPTCHA_INVALID_COUNT' = 0 /\ attempt' = 0 /\ pass_fetches' = 0)]_vars

\* C4: one pass of the captcha loop makes at most 3 fetches; every fetch that
\* yields no answer, whatever the reason, uses up one of them; after the third
\* such fetch the script asks for a new token and sends no lookup POST.
C4_ThreeFetchesPerPass ==
    [][/\ pass_fetches' <= MaxCaptchaAttempts
       /\ (pc = "fetch" /\ ~CAPTCHA_FETCHED')
             => (attempt' = attempt + 1 /\ pass_fetches' = pass_fetches + 1)
       /\ (pc = "fetch" /\ ~CAPTCHA_FETCHED' /\ pass_fetches' = MaxCaptchaAttempts)
             => pc' = "refresh_exhausted"
       /\ pc' = "post" => CAPTCHA_FETCHED'
       /\ pc = "refresh_exhausted"
             => (/\ pc' \in {"fetch", "aborted"}
                 /\ response' = response
                 /\ sheet' = sheet)]_vars

C4_Witness ==
    /\ pc = "refresh_exhausted"
    /\ pass_fetches = MaxCaptchaAttempts
    /\ ~CAPTCHA_FETCHED
    /\ CaptchaLimited[response]

\* C5 as stated: over the lifetime of a token at most 3 captcha fetches are
\* made with it.
C5_ThreeFetchesPerToken == token_fetches <= MaxCaptchaAttempts

\* C5 amended: at most 3 captcha fetches are made with a token as long as no
\* lookup POST made with it was answered RateLimited or CaptchaInvalid below
\* the cap.
C5_ThreeFetchesUntilRetried ==
    ~token_retried => token_fetches <= MaxCaptchaAttempts

C5_Witness ==
    /\ ~token_retried
    /\ token_fetches = MaxCaptchaAttempts
    /\ pc \in {"post", "refresh_exhausted"}

\* A lookup step that ends with the row of a rejected request appended.
RejectedAppended ==
    /\ sheet' = Append(sheet, NotAvailable(serial_number, "Cannot process request"))
    /\ idx' = idx + 1
    /\ pc' \in {"acquire", "done"}

\* C6 as stated: a lookup response with the cannot-process marker and none of
\* the captcha-mismatch, invalid-identifier, purchase-date, benefits and
\* expired markers ends the lookup with the row "Cannot process request".
C6_CannotProcessRejected ==
    [][(/\ pc = "post"
        /\ CannotProcessMarker \in MarkersIn(response'.content)
        /\ MarkersIn(response'.content)
              \cap {CaptchaMismatchMarker, InvalidSerialMarker, PurchaseDateMarker,
                    BenefitsMarker, ExpiredMarker} = {})
          => RejectedAppended]_vars

\* C6 amended: the same, for a response that does not hold the rate-limit
\* marker either.
C6_CannotProcessRejectedUnlessBusy ==
    [][(/\ pc = "post"
        /\ CannotProcessMarker \in MarkersIn(response'.content)
        /\ MarkersIn(response'.content)
              \cap {RateLimitMarker, CaptchaMismatchMarker, InvalidSerialMarker,
                    PurchaseDateMarker, BenefitsMarker, ExpiredMarker} = {})
          => RejectedAppended]_vars

C6_Witness ==
    /\ Len(Records) >= 1
    /\ sheet[Len(sheet)].status = "Cannot process request"
    /\ CannotProcessMarker \in MarkersIn(response.content)
    /\ RateLimitMarker \notin MarkersIn(response.content)

\* C7: a lookup response with both the rate-limit marker and the
\* coverage-detail marker is treated as rate limited: no row is appended, the
\* script backs off and fetches a new captcha for the same identifier.
C7_RateLimitBeforeDetail ==
    [][(/\ pc = "post"
        /\ {RateLimitMarker, CoverageDetailMarker} \subseteq MarkersIn(response'.content))
          => (/\ sheet' = sheet
              /\ idx' = idx
              /\ pc' = "fetch"
              /\ auth_token' = auth_token
              /\ backoff' # NoBackoff)]_vars

C7_Witness ==
    /\ pc = "fetch"
    /\ pass_fetches = 0
    /\ {RateLimitMarker, CoverageDetailMarker} \subseteq MarkersIn(response.content)
    /\ backoff # NoBackoff

\* C8: a token acquisition that fails, at any of its three places, ends the
\* batch: the rows stay as they are and no step follows; when the very first
\* acquisition fails no row was appended and no captcha was fetched.
C8_TokenFailureEndsBatch ==
    [][/\ (pc \in AcquirePoints /\ auth_token' = None)
             => (/\ pc' = "aborted"
                 /\ sheet' = sheet
                 /\ response' = response
                 /\ token_fetches' = token_fetches)
       /\ (pc = "acquire" /\ idx = 1 /\ auth_token' = None)
             => (sheet' = <<headers>> /\ response' = NoResponse)
       /\ pc # "aborted"]_vars

C8_Witness ==
    /\ pc = "aborted"
    /\ auth_token = None
    /\ Len(Records) >= 1
    /\ CAPTCHA_INVALID_COUNT = MaxInvalidCaptcha

LookupLeaves ==
    \A i \in 1..MaxLen :
        (idx = i /\ pc \in InLoop) ~> (pc \in {"aborted", "done"} \/ idx > i)

\* C10 as stated: whatever the service answers, every lookup eventually
\* leaves the retry loop.
C10_LookupAlwaysLeaves == LookupLeaves

\* C10 amended: every lookup eventually leaves the retry loop if the service
\* does not withhold for ever a captcha that can be read nor an answer to the
\* lookup other than rate limit and captcha mismatch.
C10_LookupLeavesIfServed ==
    (SF_vars(CaptchaSolved) /\ SF_vars(TerminalAnswer)) => LookupLeaves

C10_Witness ==
    /\ pc \in {"acquire", "done"}
    /\ Len(Records) >= 1
    /\ token_retried
    /\ backoff = NoBackoff

\* C11: a lookup response with the invalid-serial marker and neither the
\* rate-limit marker nor the captcha-mismatch marker ends the lookup: the one
\* row {serial, N/A, N/A, N/A, "Invalid"} is appended and the script moves to
\* the next serial.
C11_InvalidSerialRecorded ==
    [][(/\ pc = "post"
        /\ InvalidSerialMarker \in MarkersIn(response'.content)
        /\ RateLimitMarker \notin MarkersIn(response'.content)
        /\ CaptchaMismatchMarker \notin MarkersIn(response'.content))
          => (/\ sheet' = Append(sheet, NotAvailable(serial_number, "Invalid"))
              /\ idx' = idx + 1
              /\ pc' \in {"acquire", "done"})]_vars

C11_Witness ==
    /\ pc \in {"acquire", "done"}
    /\ InvalidSerialMarker \in MarkersIn(response.content)
    /\ Len(Records) >= 1
    /\ Records[Len(Records)] = NotAvailable(serial_numbers[idx - 1], "Invalid")

\* C12 as stated: the time slept by exponential_backoff(1) lies between 0.5
\* and 1.5 seconds for every jitter factor between 0.5 and 1.5.
C12_FirstDelayHalfToOneAndHalf ==
    backoff.retry_attempt = 1 =>
        (5 <= backoff.random_wait /\ backoff.random_wait <= 15)

\* C12 amended: the time slept by exponential_backoff(1) lies between 1.0 and
\* 3.0 seconds for every jitter factor between 0.5 and 1.5, its base being
\* 2 seconds.
C12_FirstDelayOneToThree ==
    backoff.retry_attempt = 1 =>
        /\ backoff.wait_time = 2
        /\ 10 <= backoff.random_wait
        /\ backoff.random_wait <= 30

C12_Witness ==
    /\ backoff.retry_attempt = 1
    /\ backoff.random_wait = 30

\* C13: for every argument from 1 on the base is min(60, 2^attempt): it never
\* exceeds 60 seconds and is 60 seconds from attempt 6 on; the time slept lies
\* between half the base and one and a half times the base and never exceeds
\* 90 seconds.
C13_BaseCappedDelayBounded ==
    backoff.retry_attempt >= 1 =>
        LET a == backoff.retry_attempt
            base == backoff.wait_time
            delay == backoff.random_wait
        IN  /\ base = IF 2^a < 60 THEN 2^a ELSE 60
            /\ base <= 60
            /\ a >= 6 => base = 60
            /\ 5 * base <= delay
            /\ delay <= 15 * base
            /\ delay <= 900

C13_Witness ==
    /\ backoff.retry_attempt = 7
    /\ backoff.wait_time = 60
    /\ backoff.random_wait = 900

\* Bodies that hold the text Expires on: "2026-01-01".
ExpiresQuoted == {body \in Bodies : Contains("Expires on: \"2026-01-01\"", body)}

\* Bodies in which PURCHASE_DATE_PATTERN finds nothing.
NoPurchaseDate ==
    {body \in Bodies : search_PURCHASE_DATE_PATTERN(decode(body)) = NoMatch}

\* C14: on the coverage-detail branch the row appended has status VALID; its
\* coverage_expiry is 2026-01-01, without label and quotes, when the body holds
\* Expires on: "2026-01-01"; its purchase_date is NOT_FOUND when the body
\* holds no purchase date.
C14_DetailFieldsExtracted ==
    [][(/\ pc = "post"
        /\ OutcomeOf[response'.content] = "CoverageFound")
          => (/\ Len(sheet') = Len(sheet) + 1
              /\ sheet'[Len(sheet')].status = Status_valid
              /\ response'.content \in ExpiresQuoted
                    => sheet'[Len(sheet')].coverage_expiry = "2026-01-01"
              /\ response'.content \in NoPurchaseDate
                    => sheet'[Len(sheet')].purchase_date = Status_not_found)]_vars

\* C15: within a lookup get_auth_token is called only after a pass of three
\* fetches without an answer or when the invalid-captcha counter reaches 6: a
\* rate-limited captcha fetch, a rate-limited lookup and a captcha mismatch
\* below the cap leave the token as it is. A rate-limited lookup also leaves
\* the invalid-captcha counter as it is and appends no row; what follows it
\* is a captcha fetch of a new pass with the same token, after one backoff.
C15_TokenKeptOnRateLimit ==
    [][/\ pc \in {"fetch", "post"} => auth_token' = auth_token
       /\ (pc \in {"fetch", "post"} /\ pc' = "refresh_exhausted")
             => (/\ pc = "fetch"
                 /\ attempt' = MaxCaptchaAttempts
                 /\ ~CAPTCHA_FETCHED')
       /\ (pc \in {"fetch", "post"} /\ pc' = "refresh_cap")
             => (pc = "post" /\ CAPTCHA_INVALID_COUNT' = MaxInvalidCaptcha)
       /\ (pc = "post" /\ RateLimitMarker \in MarkersIn(response'.content))
             => (/\ CAPTCHA_INVALID_COUNT' = CAPTCHA_INVALID_COUNT
                 /\ sheet' = sheet
                 /\ idx' = idx
                 /\ pc' = "fetch"
                 /\ attempt' = 0
                 /\ pass_fetches' = 0
                 /\ backoff'.retry_attempt = RetryAttempt
                 /\ backoff'.random_wait \in {j * 2 : j \in JitterTenths})]_vars

C15_Witness ==
    /\ pc = "fetch"
    /\ pass_fetches = 0
    /\ backoff # NoBackoff
    /\ RateLimitMarker \in MarkersIn(response.content)
    /\ CAPTCHA_INVALID_COUNT > 0
    /\ auth_token # None

\* C16: a lookup response with the benefits marker or the expired marker and
\* none of the rate-limit, captcha-mismatch, invalid-serial and purchase-date
\* markers ends the lookup with the row {serial, N/A, N/A, N/A, "Fully valid"}:
\* nothing is extracted from the body, also when it holds the coverage-detail
\* marker and fields the detail branch would extract.
C16_FullyValidBeforeDetail ==
    [][(/\ pc = "post"
        /\ MarkersIn(response'.content) \cap {BenefitsMarker, ExpiredMarker} # {}
        /\ MarkersIn(response'.content)
              \cap {RateLimitMarker, CaptchaMismatchMarker,
                    InvalidSerialMarker, PurchaseDateMarker} = {})
          => (/\ sheet' = Append(sheet, NotAvailable(serial_number, "Fully valid"))
              /\ idx' = idx + 1
              /\ pc' \in {"acquire", "done"})]_vars

C16_Witness ==
    /\ pc \in {"acquire", "done"}
    /\ {ExpiredMarker, CoverageDetailMarker} \subseteq MarkersIn(response.content)
    /\ response.content \in ExpiresQuoted
    /\ Len(Records) >= 1
    /\ Records[Len(Records)] = NotAvailable(serial_numbers[idx - 1], "Fully valid")

\* The outcomes of the if chain on a lookup response.
Outcomes ==
    {"RateLimited", "CaptchaInvalid", "IdentifierInvalid", "PurchaseDateUnverifiable",
     "FullyValid", "RequestRejected", "CoverageFound", "Unknown"}

\* C17: every lookup response falls into one of the eight outcomes; an outcome
\* other than RateLimited and CaptchaInvalid ends the lookup with one row for
\* the serial appended after the rows already there, RateLimited and
\* CaptchaInvalid append nothing, and a body with none of the markers yields
\* the row {serial, N/A, N/A, N/A, "Unknown"}.
C17_ClassificationTotal ==
    [][pc = "post" =>
        LET outcome == OutcomeOf[response'.content]
        IN  /\ outcome \in Outcomes
            /\ outcome \notin {"RateLimited", "CaptchaInvalid"}
                  => (/\ Len(sheet') = Len(sheet) + 1
                      /\ SubSeq(sheet', 1, Len(sheet)) = sheet
                      /\ sheet'[Len(sheet')].serial_number = serial_number
                      /\ idx' = idx + 1
                      /\ pc' \in {"acquire", "done"})
            /\ outcome \in {"RateLimited", "CaptchaInvalid"}
                  => (sheet' = sheet /\ idx' = idx)
            /\ MarkersIn(response'.content) = {}
                  => sheet' = Append(sheet, NotAvailable(serial_number, "Unknown"))]_vars

C17_Witness ==
    /\ pc \in {"acquire", "done"}
    /\ response.content \in Bodies
    /\ MarkersIn(response.content) = {}
    /\ Len(Records) = 2
    /\ Records[2] = NotAvailable(serial_numbers[2], "Unknown")
    /\ Records[1].status = Status_valid

\* C18: every backoff of the script, after a rate-limited captcha fetch and
\* after a rate-limited lookup alike, is exponential_backoff(1), however many
\* rate limits the serial has met: its base is 2 seconds every time.
C18_BackoffAlwaysFirstAttempt ==
    [][/\ backoff' # NoBackoff
             => (/\ backoff'.retry_attempt = 1
                 /\ backoff'.wait_time = 2
                 /\ backoff'.random_wait <= 30)
       /\ (pc = "fetch" /\ CaptchaLimited[response'])
             => backoff'.retry_attempt = 1
       /\ (pc = "post" /\ RateLimitMarker \in MarkersIn(response'.content))
             => backoff'.retry_attempt = 1]_vars

C18_Witness ==
    /\ backoff.retry_attempt = 1
    /\ pc = "refresh_exhausted"
    /\ pass_fetches = MaxCaptchaAttempts
    /\ token_retried
    /\ CaptchaLimited[response]

\* The serials of the rows written are the first serials of the input, in
\* order, one row for each serial already left behind.
RecordsFormPrefix ==
    /\ Len(sheet) >= 1
    /\ sheet[1] = headers
    /\ Len(Records) <= Len(serial_numbers)
    /\ Len(Records) = idx - 1
    /\ \A i \in 1..Len(Records) : Records[i].serial_number = serial_numbers[i]

\* C19: in every state, a state after sys.exit included, the serials of the
\* rows appended are a prefix of the input; a step leaves the sheet as it is
\* or appends one row at its end, so a row once written is never changed nor
\* removed and the row of serial i + 1 comes after the row of serial i.
C19_RecordsPrefixOfInput ==
    /\ RecordsFormPrefix
    /\ [][/\ RecordsFormPrefix'
           /\ \/ sheet' = sheet
              \/ /\ Len(sheet') = Len(sheet) + 1
                 /\ SubSeq(sheet', 1, Len(sheet)) = sheet
                 /\ sheet'[Len(sheet')].serial_number = serial_numbers[idx]
                 /\ idx' = idx + 1]_vars

C19_Witness ==
    /\ pc = "aborted"
    /\ Len(serial_numbers) = 2
    /\ Len(Records) = 1
    /\ Records[1].serial_number = serial_numbers[1]
    /\ idx = 2

\* C20: a lookup POST carries a captcha answer read in the for loop just run,
\* from a challenge fetched with the token the POST carries: the POST follows
\* at once the fetch whose image was read, no POST follows a for loop in which
\* no image was read, and the answer is dropped before the next for loop, so
\* that no POST carries the answer of an earlier loop or of a token since
\* replaced.
C20_PostCarriesFreshAnswer ==
    /\ pc = "post"
          => (/\ CAPTCHA_FETCHED
              /\ CAPTCHA_ANSWER # None
              /\ auth_token # None
              /\ answer_token = auth_token
              /\ pass_fetches >= 1
              /\ HasKey(response.json, "binaryValue"))
    /\ [][/\ pc' = "post"
               => (/\ pc = "fetch"
                   /\ auth_token' = auth_token
                   /\ HasKey(response'.json, "binaryValue")
                   /\ \E result \in OcrResults \ {<< >>} :
                         CAPTCHA_ANSWER' = result[1][2])
          /\ pc' = "refresh_exhausted" => ~CAPTCHA_FETCHED'
          /\ (pc = "post" /\ pc' = "fetch")
               => (~CAPTCHA_FETCHED' /\ CAPTCHA_ANSWER' = None)]_vars

C20_Witness ==
    /\ pc = "post"
    /\ answer_token = auth_token
    /\ CAPTCHA_ANSWER # None
    /\ token_retried
    /\ CAPTCHA_INVALID_COUNT > 0
    /\ pass_fetches = MaxCaptchaAttempts

====
